---- MODULE Spec2Model ----
(***************************************************************************)
(* The browser-side controller of StoreMyText (src/static/script.js) as a  *)
(* state machine: the `state` object, the parts of the DOM and of           *)
(* localStorage the handlers read back, the requests in flight, and the    *)
(* remote note store that answers them.  One action is one run of a        *)
(* handler between two turns of the event loop: a handler runs up to its   *)
(* first pending `await`, and the rest of it runs when the response (or    *)
(* the button click that settles the confirmation promise) arrives.        *)
(***************************************************************************)
EXTENDS Integers, Sequences, FiniteSets, TLC

\* ---------------------------------------------------------------- bounds
MaxNotes == 1        \* note ids the server ever assigns
MaxInFlight == 2     \* requests awaiting their response at one time
MaxConfirms == 2     \* confirmation promises not yet settled at one time
MaxCached == 3       \* notes in the cache when the History list is followed
MaxSelected == 3     \* notes ticked when the selection is deleted one request per id

\* ---------------------------------------------------------------- values
null == "null"
SessionToken == "tok"
IdName == <<"n1", "n2", "n3", "n4", "n5">>
IdSeq == SubSeq(IdName, 1, MaxNotes)
Filenames == {IdSeq[k] : k \in 1..Len(IdSeq)}

\* A text is a sequence of characters
Whitespace == {" "}

\* A property the response did not carry (undefined in the script)
undefined == <<"undefined">>

\* The notes the server can hold: each id with its title, its content and
\* the time of its last update.  n1 is the note the editor saves.
NoteOf(filename) ==
    CASE filename = "n1" ->
           [filename |-> "n1", title |-> <<"A", "b">>, filecontent |-> <<"c">>,
            updated_at |-> 10]
      [] filename = "n2" ->
           [filename |-> "n2", title |-> <<"b">>, filecontent |-> undefined,
            updated_at |-> 5]
      [] filename = "n3" ->
           [filename |-> "n3", title |-> undefined, filecontent |-> <<"B", "c">>,
            updated_at |-> 20]
      [] filename = "n4" ->
           [filename |-> "n4", title |-> <<>>, filecontent |-> <<>>,
            updated_at |-> 10]
      [] OTHER ->
           [filename |-> filename, title |-> <<"a">>, filecontent |-> <<>>,
            updated_at |-> 10]

\* What the user types into #noteTitle and #textInput
Titles == {<<>>, <<" ">>, <<"A", "b">>, <<" ", "b">>}

Contents == {<<>>, <<"c">>}

\* What the user types into #searchNotes
SearchTerms == {<<>>, <<"a">>, <<"B">>, <<"a", "B">>, <<"c">>, <<"d">>}

VARIABLES
    token,            \* state.token
    lsToken,          \* localStorage "token"
    currentView,      \* state.currentView
    headerActions,    \* logout / connectDrive buttons displayed
    editingFilename,  \* state.editingFilename
    notesCache,       \* state.notesCache: [isArray, items]
    historyRows,      \* filenames of the rows in #historyList
    selectedNotes,    \* state.selectedNotes
    pinnedNotes,      \* state.pinnedNotes
    lsPinnedNotes,    \* localStorage "pinnedNotes": the array stored
    userEmail,        \* state.userEmail
    driveLinked,      \* state.driveLinked
    loading,          \* body.classList contains "loading"
    confirmDisplay,   \* #customConfirm is displayed
    confirms,         \* customConfirm promises whose Yes/No listeners are attached
    inflight,         \* requests sent and not yet handled, in the order sent
    serverNotes,      \* the remote store: ids of the user's notes
    serverNextId,     \* index in IdSeq of the next id the server assigns
    noteTitle,        \* value of #noteTitle, a sequence of characters
    textInput,        \* value of #textInput, a sequence of characters
    searchTerm,       \* value of #searchNotes, a sequence of characters
    historyList,      \* the rows of #historyList in the order displayed
    mainStatus,       \* textContent of #mainStatus
    historyStatus,    \* textContent of #historyStatus
    viewNoteModal,    \* #viewNoteModal is displayed
    messageTimeout,   \* the element the pending state.messageTimeout blanks
    lastIssued,       \* history: the answer given to the /history request issued last
    loggedOut,        \* history: logout() ran and no login has succeeded since
    ev                \* history: the handler step that ran last

clientVars == <<token, lsToken, currentView, headerActions, editingFilename,
                notesCache, historyRows, selectedNotes, pinnedNotes,
                lsPinnedNotes, userEmail, driveLinked, loading,
                confirmDisplay, confirms>>
serverVars == <<serverNotes, serverNextId>>
formVars == <<noteTitle, textInput>>
listVars == <<searchTerm, historyList>>
shownVars == <<mainStatus, historyStatus, viewNoteModal, messageTimeout>>
vars == <<clientVars, inflight, serverVars, formVars, listVars, shownVars,
          lastIssued, loggedOut, ev>>

\* ---------------------------------------------------------------- helpers
\* String.prototype.trim
RECURSIVE trimStart(_)
trimStart(s) ==
    IF s # <<>> /\ Head(s) \in Whitespace THEN trimStart(Tail(s)) ELSE s

RECURSIVE trimEnd(_)
trimEnd(s) ==
    IF s # <<>> /\ s[Len(s)] \in Whitespace
    THEN trimEnd(SubSeq(s, 1, Len(s) - 1)) ELSE s

trim(s) == trimEnd(trimStart(s))

Remove(s, i) == SubSeq(s, 1, i - 1) \o SubSeq(s, i + 1, Len(s))

Range(s) == {s[k] : k \in 1..Len(s)}

ArrayOf(items) == [isArray |-> TRUE, items |-> items]

\* What apiRequest returns for a 2xx response whose body is not JSON: {}
EmptyObject == [isArray |-> FALSE, items |-> <<>>]

\* The note list the server sends for /history
ServerList == SelectSeq(IdName, LAMBDA f : f \in serverNotes)

Ev(type, op, cont, resp, filenames) ==
    [type |-> type, op |-> op, cont |-> cont, resp |-> resp, filenames |-> filenames]

UserEv(type) == Ev(type, "", "", "", {})

\* A request as apiRequest sends it while state.token is tok; auth: an
\* Authorization header was attached.  cont names the caller that awaits it.
RequestWith(op, cont, filename, filenames, tok) ==
    [op |-> op, cont |-> cont, filename |-> filename, filenames |-> filenames,
     auth |-> tok # null, resp |-> "none",
     rtoken |-> null, email |-> "", drive |-> FALSE, list |-> <<>>, url |-> FALSE]

Request(op, cont, filename, filenames) ==
    RequestWith(op, cont, filename, filenames, token)

\* No /history request has been issued, or the one issued last is unanswered
NoAnswer == [resp |-> "none", list |-> <<>>]

\* showView: the header actions are shown in main/history when a token is held
HeaderShown(viewName, tok) == viewName \in {"main", "history"} /\ tok # null

\* String.prototype.toLowerCase
Lower(c) == CASE c = "A" -> "a" [] c = "B" -> "b" [] OTHER -> c

toLowerCase(s) == [k \in 1..Len(s) |-> Lower(s[k])]

\* String.prototype.includes
includes(s, t) ==
    \E k \in 0..(Len(s) - Len(t)) : SubSeq(s, k + 1, k + Len(t)) = t

\* `text && text.toLowerCase().includes(lowerCaseSearchTerm)`: a text that
\* is undefined or empty is falsy
FieldMatches(text, lowerCaseSearchTerm) ==
    /\ text # undefined
    /\ text # <<>>
    /\ includes(toLowerCase(text), lowerCaseSearchTerm)

\* renderHistory: state.notesCache.filter(...), the filenames kept
NotesToRender(items, term) ==
    SelectSeq(items,
              LAMBDA f : \/ FieldMatches(NoteOf(f).title, toLowerCase(term))
                         \/ FieldMatches(NoteOf(f).filecontent, toLowerCase(term)))

\* The comparator ignoring the pins
Compare_NewestOnly(a, b, pinned) == NoteOf(b).updated_at - NoteOf(a).updated_at

\* renderHistory: the comparator handed to sort
Compare(a, b, pinned) ==
    IF a \in pinned /\ b \notin pinned THEN -1
    ELSE IF a \notin pinned /\ b \in pinned THEN 1
    ELSE NoteOf(b).updated_at - NoteOf(a).updated_at

\* Array.prototype.sort, which is stable: x goes before the first element
\* it compares below
RECURSIVE InsertSorted(_, _, _)
InsertSorted(x, sorted, pinned) ==
    IF sorted = <<>> THEN <<x>>
    ELSE IF Compare(x, Head(sorted), pinned) < 0 THEN <<x>> \o sorted
    ELSE <<Head(sorted)>> \o InsertSorted(x, Tail(sorted), pinned)

RECURSIVE sort(_, _)
sort(items, pinned) ==
    IF items = <<>> THEN <<>>
    ELSE InsertSorted(items[Len(items)],
                      sort(SubSeq(items, 1, Len(items) - 1), pinned), pinned)

\* renderHistory(term): the rows written to #historyList, each with the
\* marks it is drawn with
renderHistory(items, term, pinned, selected) ==
    LET notesToRender == sort(NotesToRender(items, term), pinned) IN
    [k \in 1..Len(notesToRender) |->
        [filename |-> notesToRender[k],
         selected |-> notesToRender[k] \in selected,
         pinned |-> notesToRender[k] \in pinned]]

\* The filenames of the rows renderHistory(searchNotes.value) writes; it
\* throws on a cache that is not an array, leaving the rows as they were
RenderedRows(cache, rows) ==
    IF cache.isArray THEN Range(NotesToRender(cache.items, searchTerm)) ELSE rows

\* ---------------------------------------------------------------- stored pins
\* JSON.stringify([...state.pinnedNotes]): the array of the ids of the Set,
\* each once (here in the order of IdName)
StoredPins(pinned) == SelectSeq(IdName, LAMBDA f : f \in pinned)

\* new Set(JSON.parse(localStorage.getItem("pinnedNotes") || "[]"))
ParsedPins(stored) == Range(stored)

\* ---------------------------------------------------------------- page load
\* The requests in flight once the DOMContentLoaded handler has returned:
\* checkOAuthRedirectFlags calls loadUserProfile when the URL carries
\* google_link_success=1, and initializeApp awaits loadUserProfile.
LoadRequests(tok, googleLinkSuccess) ==
    IF tok = null THEN <<>>
    ELSE (IF googleLinkSuccess
          THEN <<RequestWith("me", "none", null, {}, tok)>> ELSE <<>>)
         \o <<RequestWith("me", "init", null, {}, tok)>>

\* The state once the DOMContentLoaded handler has returned, but for the
\* message of checkOAuthRedirectFlags
PageLoaded(googleLinkSuccess) ==
    /\ lsToken \in {null, SessionToken}
    /\ token = lsToken
    /\ lsPinnedNotes = <<>>
    /\ pinnedNotes = ParsedPins(lsPinnedNotes)
    /\ currentView = IF token = null THEN "login" ELSE ""
    /\ headerActions = FALSE
    /\ editingFilename = null
    /\ notesCache = ArrayOf(<<>>)
    /\ historyRows = {}
    /\ selectedNotes = {}
    /\ userEmail = null
    /\ driveLinked = FALSE
    /\ loading = (token # null)
    /\ confirmDisplay = FALSE
    /\ confirms = <<>>
    /\ inflight = LoadRequests(token, googleLinkSuccess)
    /\ serverNotes = {}
    /\ serverNextId = 1
    /\ noteTitle = <<>>
    /\ textInput = <<>>
    /\ searchTerm = <<>>
    /\ historyList = <<>>
    /\ historyStatus = ""
    /\ viewNoteModal = FALSE
    /\ lastIssued = NoAnswer
    /\ loggedOut = FALSE
    /\ ev = UserEv("user")

\* The status line of the Editor is followed by EditorSpec only: here it
\* stays blank
Init ==
    \E googleLinkSuccess \in BOOLEAN :
    /\ PageLoaded(googleLinkSuccess)
    /\ mainStatus = ""
    /\ messageTimeout = null

\* The page is loaded again (reload, or return from the OAuth redirect):
\* the script starts over from what localStorage holds.
LoadPage(googleLinkSuccess) ==
    /\ token' = lsToken
    /\ pinnedNotes' = ParsedPins(lsPinnedNotes)
    /\ currentView' = IF lsToken = null THEN "login" ELSE ""
    /\ headerActions' = FALSE
    /\ editingFilename' = null
    /\ notesCache' = ArrayOf(<<>>)
    /\ historyRows' = {}
    /\ selectedNotes' = {}
    /\ userEmail' = null
    /\ driveLinked' = FALSE
    /\ loading' = (lsToken # null)
    /\ confirmDisplay' = FALSE
    /\ confirms' = <<>>
    /\ inflight' = LoadRequests(lsToken, googleLinkSuccess)
    /\ ev' = UserEv("user")
    /\ UNCHANGED <<lsToken, lsPinnedNotes, serverVars, loggedOut>>

\* checkOAuthRedirectFlags takes the flag out of the URL, so a reload carries none
ReloadPage == LoadPage(FALSE)

\* The confirmation modal covers the page: while it is displayed only its
\* buttons and the Escape key act.
CanClick == ~confirmDisplay

CanSend == Len(inflight) < MaxInFlight

\* ---------------------------------------------------------------- user actions
\* handleAuth(e, endpoint, ...) up to its await, on the submit of the form
\* of the view `op` while its inputs hold emailValue and passwordValue: the
\* payload is built from the trimmed values and sent, whatever they are
handleAuth(op, emailValue, passwordValue) ==
    LET payload == [email |-> trim(emailValue),
                    password |-> trim(passwordValue)] IN
    /\ CanClick /\ currentView = op /\ CanSend
    /\ inflight' = Append(inflight, Request(op, "none", null, {}))
    /\ ev' = UserEv(IF payload.email = <<>> \/ payload.password = <<>>
                    THEN "emptyCredentials" ELSE "user")
    /\ UNCHANGED <<clientVars, serverVars, loggedOut>>

\* submit of #loginForm: handleAuth(e, "/login", ...) up to its await
SubmitLogin ==
    /\ CanClick /\ currentView = "login" /\ CanSend
    /\ inflight' = Append(inflight, Request("login", "none", null, {}))
    /\ ev' = UserEv("user")
    /\ UNCHANGED <<clientVars, serverVars, loggedOut>>

\* submit of #registerForm: handleAuth(e, "/register", ...) up to its await
SubmitRegister ==
    /\ CanClick /\ currentView = "register" /\ CanSend
    /\ inflight' = Append(inflight, Request("register", "none", null, {}))
    /\ ev' = UserEv("user")
    /\ UNCHANGED <<clientVars, serverVars, loggedOut>>

\* goToRegister / goToLogin / backToMain: showView(viewName)
Navigate(from, viewName) ==
    /\ CanClick /\ currentView = from
    /\ currentView' = viewName
    /\ headerActions' = HeaderShown(viewName, token)
    /\ ev' = UserEv("user")
    /\ UNCHANGED <<token, lsToken, editingFilename, notesCache, historyRows,
                   selectedNotes, pinnedNotes, lsPinnedNotes, userEmail,
                   driveLinked, loading, confirmDisplay, confirms, inflight,
                   serverVars, loggedOut>>

GoToRegister == Navigate("login", "register")

GoToLogin == Navigate("register", "login")

BackToMain == Navigate("history", "main")

\* click on #logoutBtn
logout ==
    /\ CanClick /\ headerActions
    /\ lsToken' = null
    /\ token' = null
    /\ userEmail' = null
    /\ driveLinked' = FALSE
    /\ currentView' = "login"
    /\ headerActions' = FALSE
    /\ loggedOut' = TRUE
    /\ ev' = UserEv("user")
    /\ UNCHANGED <<editingFilename, notesCache, historyRows, selectedNotes,
                   pinnedNotes, lsPinnedNotes, loading, confirmDisplay, confirms,
                   inflight, serverVars>>

\* handleSaveNote sending every note without a filename, as a new note
handleSaveNote_NoFilename(noteTitleValue) ==
    /\ CanClick /\ currentView = "main"
    /\ IF trim(noteTitleValue) # <<>>
       THEN /\ CanSend
            /\ loading' = TRUE
            /\ inflight' = Append(inflight, Request("save", "none", null, {}))
            /\ ev' = UserEv("user")
       ELSE /\ ev' = UserEv("titleRequired")
            /\ UNCHANGED <<loading, inflight>>
    /\ UNCHANGED <<token, lsToken, currentView, headerActions, editingFilename,
                   notesCache, historyRows, selectedNotes, pinnedNotes,
                   lsPinnedNotes, userEmail, driveLinked, confirmDisplay,
                   confirms, serverVars, loggedOut>>

\* submit of #noteForm while #noteTitle holds noteTitleValue: handleSaveNote
\* up to its await; a title that trims to nothing returns after the message
handleSaveNote(noteTitleValue) ==
    /\ CanClick /\ currentView = "main"
    /\ IF trim(noteTitleValue) # <<>>
       THEN /\ CanSend
            /\ loading' = TRUE
            /\ inflight' = Append(inflight,
                                  Request("save", "none", editingFilename, {}))
            /\ ev' = UserEv("user")
       ELSE /\ ev' = UserEv("titleRequired")
            /\ UNCHANGED <<loading, inflight>>
    /\ UNCHANGED <<token, lsToken, currentView, headerActions, editingFilename,
                   notesCache, historyRows, selectedNotes, pinnedNotes,
                   lsPinnedNotes, userEmail, driveLinked, confirmDisplay,
                   confirms, serverVars, loggedOut>>

\* click on #historyBtn: fetchHistory() up to its await, then showView("history")
ClickHistory ==
    /\ CanClick /\ currentView = "main" /\ CanSend
    /\ loading' = TRUE
    /\ inflight' = Append(inflight, Request("history", "none", null, {}))
    /\ currentView' = "history"
    /\ headerActions' = HeaderShown("history", token)
    /\ ev' = UserEv("user")
    /\ UNCHANGED <<token, lsToken, editingFilename, notesCache, historyRows,
                   selectedNotes, pinnedNotes, lsPinnedNotes, userEmail,
                   driveLinked, confirmDisplay, confirms, serverVars, loggedOut>>

\* click on #cancelEditBtn (displayed by editNote, hidden by resetEditor)
resetEditor ==
    /\ CanClick /\ currentView = "main" /\ editingFilename # null
    /\ editingFilename' = null
    /\ ev' = UserEv("user")
    /\ UNCHANGED <<token, lsToken, currentView, headerActions, notesCache,
                   historyRows, selectedNotes, pinnedNotes, lsPinnedNotes,
                   userEmail, driveLinked, loading, confirmDisplay, confirms,
                   inflight, serverVars, loggedOut>>

\* click on the checkbox of a row
toggleNoteSelection(filename) ==
    /\ CanClick /\ currentView = "history" /\ filename \in historyRows
    /\ selectedNotes' = IF filename \in selectedNotes
                        THEN selectedNotes \ {filename}
                        ELSE selectedNotes \cup {filename}
    /\ ev' = UserEv("user")
    /\ UNCHANGED <<token, lsToken, currentView, headerActions, editingFilename,
                   notesCache, historyRows, pinnedNotes, lsPinnedNotes, userEmail,
                   driveLinked, loading, confirmDisplay, confirms, inflight,
                   serverVars, loggedOut>>

\* change of #selectAllNotes
toggleSelectAll(checked) ==
    /\ CanClick /\ currentView = "history"
    /\ selectedNotes' = IF checked THEN selectedNotes \cup historyRows
                                   ELSE selectedNotes \ historyRows
    /\ ev' = UserEv("user")
    /\ UNCHANGED <<token, lsToken, currentView, headerActions, editingFilename,
                   notesCache, historyRows, pinnedNotes, lsPinnedNotes, userEmail,
                   driveLinked, loading, confirmDisplay, confirms, inflight,
                   serverVars, loggedOut>>

\* handleDeleteNote(filenames) up to its await: customConfirm shows the modal
\* and attaches a Yes and a No listener
handleDeleteNote(filenames) ==
    /\ Len(confirms) < MaxConfirms
    /\ confirms' = Append(confirms, [filenames |-> filenames])
    /\ confirmDisplay' = TRUE
    /\ ev' = UserEv("user")
    /\ UNCHANGED <<token, lsToken, currentView, headerActions, editingFilename,
                   notesCache, historyRows, selectedNotes, pinnedNotes,
                   lsPinnedNotes, userEmail, driveLinked, loading, inflight,
                   serverVars, loggedOut>>

\* click on #deleteSelectedBtn (displayed while the selection is not empty)
ClickDeleteSelected ==
    /\ CanClick /\ currentView = "history" /\ selectedNotes # {}
    /\ handleDeleteNote(selectedNotes)

\* click on the delete button of a row
ClickDelete ==
    /\ CanClick /\ currentView = "history"
    /\ \E filename \in historyRows : handleDeleteNote({filename})

\* handlePinNote without the localStorage.setItem
handlePinNote_NotStored(filename) ==
    /\ CanClick /\ currentView = "history" /\ filename \in historyRows
    /\ pinnedNotes' = IF filename \in pinnedNotes
                      THEN pinnedNotes \ {filename}
                      ELSE pinnedNotes \cup {filename}
    /\ historyRows' = RenderedRows(notesCache, historyRows)
    /\ ev' = UserEv("user")
    /\ UNCHANGED <<token, lsToken, currentView, headerActions, editingFilename,
                   notesCache, selectedNotes, lsPinnedNotes, userEmail,
                   driveLinked, loading, confirmDisplay, confirms, inflight,
                   serverVars, loggedOut>>

\* click on the pin button of a row
handlePinNote(filename) ==
    /\ CanClick /\ currentView = "history" /\ filename \in historyRows
    /\ pinnedNotes' = IF filename \in pinnedNotes
                      THEN pinnedNotes \ {filename}
                      ELSE pinnedNotes \cup {filename}
    /\ lsPinnedNotes' = StoredPins(pinnedNotes')
    /\ historyRows' = RenderedRows(notesCache, historyRows)
    /\ ev' = UserEv("user")
    /\ UNCHANGED <<token, lsToken, currentView, headerActions, editingFilename,
                   notesCache, selectedNotes, userEmail, driveLinked, loading,
                   confirmDisplay, confirms, inflight, serverVars, loggedOut>>

\* click elsewhere on a row: editNote(note) when the cache holds the note
editNote(filename) ==
    /\ CanClick /\ currentView = "history" /\ filename \in historyRows
    /\ notesCache.isArray /\ filename \in Range(notesCache.items)
    /\ editingFilename' = filename
    /\ currentView' = "main"
    /\ headerActions' = HeaderShown("main", token)
    /\ ev' = UserEv("user")
    /\ UNCHANGED <<token, lsToken, notesCache, historyRows, selectedNotes,
                   pinnedNotes, lsPinnedNotes, userEmail, driveLinked, loading,
                   confirmDisplay, confirms, inflight, serverVars, loggedOut>>

\* click on #connectDriveBtn (displayed with the header actions, disabled
\* when Drive is linked): startDriveConnect up to its await
startDriveConnect ==
    /\ CanClick /\ headerActions /\ ~driveLinked /\ CanSend
    /\ loading' = TRUE
    /\ inflight' = Append(inflight, Request("driveStart", "none", null, {}))
    /\ ev' = UserEv("user")
    /\ UNCHANGED <<token, lsToken, currentView, headerActions, editingFilename,
                   notesCache, historyRows, selectedNotes, pinnedNotes,
                   lsPinnedNotes, userEmail, driveLinked, confirmDisplay,
                   confirms, serverVars, loggedOut>>

\* ---------------------------------------------------------------- confirmation modal
\* DeleteRequests without the `if (!confirmed) return`
DeleteRequests_Unconfirmed(confirmed) ==
    [k \in 1..Len(confirms) |->
        Request("delete", "none", null, confirms[k].filenames)]

\* handleDeleteNote after `await customConfirm(...)`, for every promise the
\* click settles: the /delete requests sent
DeleteRequests(confirmed) ==
    IF confirmed
    THEN [k \in 1..Len(confirms) |->
            Request("delete", "none", null, confirms[k].filenames)]
    ELSE <<>>

\* click on #confirmYes / #confirmNo: every listener still attached runs
\* cleanup(result), and each handleDeleteNote resumes
ConfirmAnswer(confirmed) ==
    /\ confirmDisplay
    /\ Len(inflight) + Len(DeleteRequests(confirmed)) <= MaxInFlight
    /\ confirms' = <<>>
    /\ confirmDisplay' = FALSE
    /\ inflight' = inflight \o DeleteRequests(confirmed)
    /\ loading' = IF DeleteRequests(confirmed) # <<>> THEN TRUE ELSE loading
    /\ ev' = UserEv(IF confirmed THEN "confirmYes" ELSE "confirmNo")
    /\ UNCHANGED <<token, lsToken, currentView, headerActions, editingFilename,
                   notesCache, historyRows, selectedNotes, pinnedNotes,
                   lsPinnedNotes, userEmail, driveLinked, serverVars, loggedOut>>

ConfirmYes == ConfirmAnswer(TRUE)

ConfirmNo == ConfirmAnswer(FALSE)

\* keydown Escape: hides the modal; the promise stays pending and its
\* listeners stay attached
KeydownEscape ==
    /\ confirmDisplay
    /\ confirmDisplay' = FALSE
    /\ ev' = UserEv("user")
    /\ UNCHANGED <<token, lsToken, currentView, headerActions, editingFilename,
                   notesCache, historyRows, selectedNotes, pinnedNotes,
                   lsPinnedNotes, userEmail, driveLinked, loading, confirms,
                   inflight, serverVars, loggedOut>>

\* ---------------------------------------------------------------- remote store
\* The server carries out request i and answers 2xx.  Only /history, /save
\* and /delete read or write the store; a request without an Authorization
\* header is never carried out.  /save without a filename creates a note
\* under a fresh id; with the filename of a stored note it updates that note;
\* with any other filename it is not carried out.
ServerAnswer(i) ==
    LET t == inflight[i] IN
    /\ t.resp = "none" /\ t.auth
    /\ \/ /\ t.op = "history"
          /\ inflight' = [inflight EXCEPT ![i].resp = "ok", ![i].list = ServerList]
          /\ UNCHANGED serverVars
       \/ /\ t.op = "save" /\ t.filename = null
          /\ serverNextId <= MaxNotes
          /\ serverNotes' = serverNotes \cup {IdSeq[serverNextId]}
          /\ serverNextId' = serverNextId + 1
          /\ inflight' = [inflight EXCEPT ![i].resp = "ok"]
       \/ /\ t.op = "save" /\ t.filename \in serverNotes
          /\ inflight' = [inflight EXCEPT ![i].resp = "ok"]
          /\ UNCHANGED serverVars
       \/ /\ t.op = "delete"
          /\ serverNotes' = serverNotes \ t.filenames
          /\ inflight' = [inflight EXCEPT ![i].resp = "ok"]
          /\ UNCHANGED serverNextId
    /\ ev' = UserEv("user")
    /\ UNCHANGED <<clientVars, loggedOut>>

\* ---------------------------------------------------------------- responses
\* The profiles the server answers /me with: an account with an email and
\* without a linked Drive (state.driveLinked only disables #connectDriveBtn)
ProfileEmails == {"user@example.com"}

ProfileDriveLinked == {FALSE}

\* What fetch and apiRequest can hand to the handler that awaits request t:
\* the 2xx answer of the server when it has carried the request out, or else
\* a rejection of the session ("authReject": a non-2xx answer whose message
\* names the authorization), any other failure ("error": network error or
\* other non-2xx answer), a 2xx body that is not JSON ("malformed"), and for
\* the endpoints that touch no stored note any 2xx answer.
Outcomes(t) ==
    IF t.resp = "ok" THEN {t}
    ELSE {[t EXCEPT !.resp = "error"]}
         \cup (IF t.op \notin {"login", "register"}
               THEN {[t EXCEPT !.resp = "authReject"]} ELSE {})
         \cup (IF t.op = "history" /\ t.auth
               THEN {[t EXCEPT !.resp = "malformed"]} ELSE {})
         \cup (IF t.op = "login"
               THEN {[t EXCEPT !.resp = "ok", !.rtoken = tok] :
                        tok \in {SessionToken, null}} ELSE {})
         \cup (IF t.op = "register" THEN {[t EXCEPT !.resp = "ok"]} ELSE {})
         \cup (IF t.op = "me" /\ t.auth
               THEN {[t EXCEPT !.resp = "ok", !.email = e, !.drive = d] :
                        e \in ProfileEmails, d \in ProfileDriveLinked} ELSE {})
         \cup (IF t.op = "driveStart" /\ t.auth
               THEN {[t EXCEPT !.resp = "ok", !.url = u] : u \in BOOLEAN} ELSE {})

ResponseEv(t) ==
    Ev("response", t.op, t.cont, t.resp, IF t.op = "history" THEN t.filenames ELSE {})

\* handleAuth after `await apiRequest(endpoint, ...)`
handleAuthResponse(i) ==
    \E t \in Outcomes(inflight[i]) :
    LET rest == Remove(inflight, i) IN
    /\ t.op \in {"login", "register"}
    /\ ev' = ResponseEv(t)
    /\ IF t.op = "login" /\ t.resp = "ok" /\ t.rtoken # null
       THEN \* token stored, loadUserProfile() runs up to its await
            /\ lsToken' = t.rtoken
            /\ token' = t.rtoken
            /\ loading' = TRUE
            /\ inflight' = Append(rest, RequestWith("me", "auth", null, {}, t.rtoken))
            /\ loggedOut' = FALSE
            /\ UNCHANGED <<currentView, headerActions>>
       ELSE IF t.op = "register" /\ t.resp = "ok"
       THEN /\ currentView' = "login"
            /\ headerActions' = HeaderShown("login", token)
            /\ inflight' = rest
            /\ UNCHANGED <<lsToken, token, loading, loggedOut>>
       ELSE \* catch: showMessage only
            /\ inflight' = rest
            /\ UNCHANGED <<lsToken, token, loading, loggedOut, currentView,
                           headerActions>>
    /\ UNCHANGED <<editingFilename, notesCache, historyRows, selectedNotes,
                   pinnedNotes, lsPinnedNotes, userEmail, driveLinked,
                   confirmDisplay, confirms, serverVars>>

\* loadUserProfile after `await apiRequest("/me")`: the view it shows
ProfileView(resp, view) ==
    CASE resp = "ok" -> IF view = "history" THEN "history" ELSE "main"
      [] resp = "authReject" -> "login"
      [] OTHER -> view

\* the caller of loadUserProfile after `await loadUserProfile()`:
\* handleAuth and initializeApp both go on to showView("main")
CallerView(cont, view) == IF cont \in {"auth", "init"} THEN "main" ELSE view

loadUserProfileResponse(i) ==
    \E t \in Outcomes(inflight[i]) :
    LET tok == IF t.resp = "authReject" THEN null ELSE token
        view == CallerView(t.cont, ProfileView(t.resp, currentView)) IN
    /\ t.op = "me"
    /\ ev' = ResponseEv(t)
    /\ inflight' = Remove(inflight, i)
    /\ userEmail' = IF t.resp = "ok"
                    THEN (IF t.email = "" THEN "Logged in" ELSE t.email)
                    ELSE userEmail
    /\ driveLinked' = IF t.resp = "ok" THEN t.drive ELSE driveLinked
    /\ token' = tok
    /\ lsToken' = IF t.resp = "authReject" THEN null ELSE lsToken
    /\ currentView' = view
    /\ headerActions' = IF t.resp = "error" /\ t.cont = "none"
                        THEN headerActions
                        ELSE HeaderShown(view, tok)
    /\ loading' = FALSE
    /\ UNCHANGED <<editingFilename, notesCache, historyRows, selectedNotes,
                   pinnedNotes, lsPinnedNotes, confirmDisplay, confirms,
                   serverVars, loggedOut>>

\* FetchedCache adding the notes of the answer to the cache
FetchedCache_Appends(t, cache) ==
    CASE t.resp = "ok" -> ArrayOf(cache.items \o t.list)
      [] t.resp = "malformed" -> EmptyObject
      [] OTHER -> cache

\* fetchHistory after `await apiRequest("/history")`: state.notesCache
FetchedCache(t, cache) ==
    CASE t.resp = "ok" -> ArrayOf(t.list)
      [] t.resp = "malformed" -> EmptyObject
      [] OTHER -> cache

\* handleDeleteNote after `await fetchHistory()`: state.selectedNotes
SelectionAfterFetch(cont, selected) == IF cont = "delete" THEN {} ELSE selected

fetchHistoryResponse(i) ==
    \E t \in Outcomes(inflight[i]) :
    /\ t.op = "history"
    /\ ev' = ResponseEv(t)
    /\ inflight' = Remove(inflight, i)
    /\ notesCache' = FetchedCache(t, notesCache)
    /\ historyRows' = RenderedRows(notesCache', historyRows)
    /\ selectedNotes' = SelectionAfterFetch(t.cont, selectedNotes)
    /\ loading' = FALSE
    /\ UNCHANGED <<token, lsToken, currentView, headerActions, editingFilename,
                   pinnedNotes, lsPinnedNotes, userEmail, driveLinked,
                   confirmDisplay, confirms, serverVars, loggedOut>>

\* handleSaveNoteResponse with showLoader(false) at the end of the try
\* instead of in a finally
handleSaveNoteResponse_NoFinally(i) ==
    \E t \in Outcomes(inflight[i]) :
    /\ t.op = "save"
    /\ ev' = ResponseEv(t)
    /\ inflight' = Remove(inflight, i)
    /\ editingFilename' = IF t.resp = "ok" THEN null ELSE editingFilename
    /\ loading' = IF t.resp = "ok" THEN FALSE ELSE loading
    /\ UNCHANGED <<token, lsToken, currentView, headerActions, notesCache,
                   historyRows, selectedNotes, pinnedNotes, lsPinnedNotes,
                   userEmail, driveLinked, confirmDisplay, confirms, serverVars,
                   loggedOut>>

\* handleSaveNote after `await apiRequest("/save", ...)`
handleSaveNoteResponse(i) ==
    \E t \in Outcomes(inflight[i]) :
    /\ t.op = "save"
    /\ ev' = ResponseEv(t)
    /\ inflight' = Remove(inflight, i)
    /\ editingFilename' = IF t.resp = "ok" THEN null ELSE editingFilename
    /\ loading' = FALSE
    /\ UNCHANGED <<token, lsToken, currentView, headerActions, notesCache,
                   historyRows, selectedNotes, pinnedNotes, lsPinnedNotes,
                   userEmail, driveLinked, confirmDisplay, confirms, serverVars,
                   loggedOut>>

\* handleDeleteNoteResponse removing the notes from the cache and the
\* selection before the server has acknowledged the delete
handleDeleteNoteResponse_Optimistic(i) ==
    \E t \in Outcomes(inflight[i]) :
    LET rest == Remove(inflight, i) IN
    /\ t.op = "delete"
    /\ ev' = ResponseEv(t)
    /\ IF t.resp = "ok"
       THEN /\ inflight' = Append(rest, Request("history", "delete", null, t.filenames))
            /\ loading' = TRUE
       ELSE /\ inflight' = rest
            /\ loading' = FALSE
    /\ notesCache' = [notesCache EXCEPT
                        !.items = SelectSeq(@, LAMBDA f : f \notin t.filenames)]
    /\ selectedNotes' = selectedNotes \ t.filenames
    /\ UNCHANGED <<token, lsToken, currentView, headerActions, editingFilename,
                   historyRows, pinnedNotes, lsPinnedNotes, userEmail,
                   driveLinked, confirmDisplay, confirms, serverVars, loggedOut>>

\* handleDeleteNote after `await apiRequest("/delete", ...)`: on success
\* fetchHistory() runs up to its await
handleDeleteNoteResponse(i) ==
    \E t \in Outcomes(inflight[i]) :
    LET rest == Remove(inflight, i) IN
    /\ t.op = "delete"
    /\ ev' = ResponseEv(t)
    /\ IF t.resp = "ok"
       THEN /\ inflight' = Append(rest, Request("history", "delete", null, t.filenames))
            /\ loading' = TRUE
       ELSE /\ inflight' = rest
            /\ loading' = FALSE
    /\ UNCHANGED <<token, lsToken, currentView, headerActions, editingFilename,
                   notesCache, historyRows, selectedNotes, pinnedNotes,
                   lsPinnedNotes, userEmail, driveLinked, confirmDisplay,
                   confirms, serverVars, loggedOut>>

\* startDriveConnect after `await apiRequest("/auth/google/start")`: with an
\* auth_url the browser leaves for it and later loads the page again
startDriveConnectResponse(i) ==
    \E t \in Outcomes(inflight[i]) :
    /\ t.op = "driveStart"
    /\ IF t.resp = "ok" /\ t.url
       THEN \E googleLinkSuccess \in BOOLEAN : LoadPage(googleLinkSuccess)
       ELSE /\ ev' = ResponseEv(t)
            /\ inflight' = Remove(inflight, i)
            /\ loading' = FALSE
            /\ UNCHANGED <<token, lsToken, currentView, headerActions,
                           editingFilename, notesCache, historyRows,
                           selectedNotes, pinnedNotes, lsPinnedNotes, userEmail,
                           driveLinked, confirmDisplay, confirms, serverVars,
                           loggedOut>>

\* ---------------------------------------------------------------- specification
\* Spec follows the `state` object, localStorage, the requests and the
\* store.  The texts in the form and the order of the rows are followed by
\* EditorSpec and ListSpec; here the title submitted is an input of
\* handleSaveNote and the search box stays empty.
TextsUnchanged == UNCHANGED <<formVars, listVars, shownVars, lastIssued>>

Next ==
    \/ SubmitLogin /\ TextsUnchanged
    \/ SubmitRegister /\ TextsUnchanged
    \/ GoToRegister /\ TextsUnchanged
    \/ GoToLogin /\ TextsUnchanged
    \/ BackToMain /\ TextsUnchanged
    \/ logout /\ TextsUnchanged
    \/ \E noteTitleValue \in Titles : handleSaveNote(noteTitleValue) /\ TextsUnchanged
    \/ ClickHistory /\ TextsUnchanged
    \/ resetEditor /\ TextsUnchanged
    \/ \E filename \in Filenames : toggleNoteSelection(filename) /\ TextsUnchanged
    \/ \E checked \in BOOLEAN : toggleSelectAll(checked) /\ TextsUnchanged
    \/ ClickDeleteSelected /\ TextsUnchanged
    \/ ClickDelete /\ TextsUnchanged
    \/ \E filename \in Filenames : handlePinNote(filename) /\ TextsUnchanged
    \/ \E filename \in Filenames : editNote(filename) /\ TextsUnchanged
    \/ startDriveConnect /\ TextsUnchanged
    \/ ConfirmYes /\ TextsUnchanged
    \/ ConfirmNo /\ TextsUnchanged
    \/ KeydownEscape /\ TextsUnchanged
    \/ ReloadPage /\ TextsUnchanged
    \/ \E i \in 1..Len(inflight) : ServerAnswer(i) /\ TextsUnchanged
    \/ \E i \in 1..Len(inflight) : handleAuthResponse(i) /\ TextsUnchanged
    \/ \E i \in 1..Len(inflight) : loadUserProfileResponse(i) /\ TextsUnchanged
    \/ \E i \in 1..Len(inflight) : fetchHistoryResponse(i) /\ TextsUnchanged
    \/ \E i \in 1..Len(inflight) : handleSaveNoteResponse(i) /\ TextsUnchanged
    \/ \E i \in 1..Len(inflight) : handleDeleteNoteResponse(i) /\ TextsUnchanged
    \/ \E i \in 1..Len(inflight) : startDriveConnectResponse(i) /\ TextsUnchanged

Spec == Init /\ [][Next]_vars

\* ---------------------------------------------------------------- the login and register forms
\* What the email and password inputs can hold
Credentials == {<<>>, <<" ">>, <<"a">>, <<"a", " ">>}

LoginFormSubmit(emailValue, passwordValue) ==
    /\ handleAuth("login", emailValue, passwordValue)
    /\ TextsUnchanged

RegisterFormSubmit(emailValue, passwordValue) ==
    /\ handleAuth("register", emailValue, passwordValue)
    /\ TextsUnchanged

\* The page has been loaded without a stored token
AuthInit == Init /\ lsToken = null

AuthNext ==
    \/ \E emailValue, passwordValue \in Credentials :
          LoginFormSubmit(emailValue, passwordValue)
    \/ \E emailValue, passwordValue \in Credentials :
          RegisterFormSubmit(emailValue, passwordValue)
    \/ GoToRegister /\ TextsUnchanged
    \/ GoToLogin /\ TextsUnchanged
    \/ logout /\ TextsUnchanged
    \/ \E i \in 1..Len(inflight) : handleAuthResponse(i) /\ TextsUnchanged
    \/ \E i \in 1..Len(inflight) : loadUserProfileResponse(i) /\ TextsUnchanged

AuthSpec == AuthInit /\ [][AuthNext]_vars

\* ---------------------------------------------------------------- the note form
\* The texts showMessage puts into #mainStatus
DriveConnected == "Google Drive connected successfully."

TitleRequired == "Title is required to save the note."

\* data.message of the 2xx answer to /save
SaveMessage == "Note saved successfully."

\* `error.message || fallback` for the failure t.resp of a request
ErrorMessage(resp, fallback) ==
    IF resp = "authReject" THEN "Unauthorized" ELSE fallback

\* showMessage(element, message, type, duration) on #mainStatus: the text is
\* set, and a duration above 0 replaces the pending timeout
showMessage_mainStatus(message, duration) ==
    /\ mainStatus' = message
    /\ messageTimeout' = IF duration > 0 THEN "mainStatus" ELSE messageTimeout

\* What an input shows after `input.value = v`
FieldValue(v) ==
    IF v = undefined THEN <<"u", "n", "d", "e", "f", "i", "n", "e", "d">> ELSE v

\* UI.forms.note.reset()
FormReset == noteTitle' = <<>> /\ textInput' = <<>>

\* the user types into #noteTitle
InputNoteTitle(text) ==
    /\ CanClick /\ currentView = "main" /\ text # noteTitle
    /\ noteTitle' = text
    /\ ev' = UserEv("user")
    /\ UNCHANGED <<clientVars, inflight, serverVars, textInput, listVars,
                   shownVars, lastIssued, loggedOut>>

\* the user types into #textInput
InputTextInput(text) ==
    /\ CanClick /\ currentView = "main" /\ text # textInput
    /\ textInput' = text
    /\ ev' = UserEv("user")
    /\ UNCHANGED <<clientVars, inflight, serverVars, noteTitle, listVars,
                   shownVars, lastIssued, loggedOut>>

\* NoteFormSubmit without the `if (!title)` check
NoteFormSubmit_Unvalidated ==
    /\ handleSaveNote(<<"x">>)
    /\ TextsUnchanged

\* submit of #noteForm: handleSaveNote reads the fields and writes none; a
\* blank title is answered with a message
NoteFormSubmit ==
    /\ handleSaveNote(noteTitle)
    /\ IF trim(noteTitle) = <<>>
       THEN showMessage_mainStatus(TitleRequired, 4000)
       ELSE UNCHANGED <<mainStatus, messageTimeout>>
    /\ UNCHANGED <<formVars, listVars, historyStatus, viewNoteModal, lastIssued>>

\* NoteFormSaved resetting the form in its `finally`, whatever the answer
NoteFormSaved_ResetAlways(i) ==
    /\ handleSaveNoteResponse(i)
    /\ FormReset
    /\ UNCHANGED <<listVars, shownVars, lastIssued>>

\* handleSaveNote after `await apiRequest("/save", ...)` with the form:
\* resetEditor() after a 2xx answer, the catch leaves the fields
\* The success message starts the timeout and resetEditor() ends with
\* showMessage(UI.displays.mainStatus, "", "info", 0).
NoteFormSaved(i) ==
    /\ handleSaveNoteResponse(i)
    /\ IF ev'.resp = "ok"
       THEN /\ FormReset
            /\ mainStatus' = ""
            /\ messageTimeout' = "mainStatus"
       ELSE /\ UNCHANGED formVars
            /\ showMessage_mainStatus(
                   ErrorMessage(ev'.resp, "Failed to save note"), 4000)
    /\ UNCHANGED <<listVars, historyStatus, viewNoteModal, lastIssued>>

\* click on #cancelEditBtn: resetEditor with the form
CancelEditClick ==
    /\ resetEditor
    /\ FormReset
    /\ showMessage_mainStatus("", 0)
    /\ UNCHANGED <<listVars, historyStatus, viewNoteModal, lastIssued>>

\* click on a row: editNote(note) puts the note into the fields
HistoryRowClick(filename) ==
    /\ editNote(filename)
    /\ noteTitle' = FieldValue(NoteOf(filename).title)
    /\ textInput' = FieldValue(NoteOf(filename).filecontent)
    /\ UNCHANGED <<listVars, shownVars, lastIssued>>

\* loadUserProfile after `await apiRequest("/me", "GET")` with the status
\* lines: both branches of the catch put their message into #loginStatus
ProfileLoaded(i) ==
    /\ loadUserProfileResponse(i)
    /\ messageTimeout' = IF ev'.resp = "ok" THEN messageTimeout ELSE "loginStatus"
    /\ UNCHANGED <<formVars, listVars, mainStatus, historyStatus, viewNoteModal, lastIssued>>

\* fetchHistory after `await apiRequest("/history")` with the status lines:
\* the catch, which a cache that is no array reaches from renderHistory
HistoryFetched(i) ==
    /\ fetchHistoryResponse(i)
    /\ IF ev'.resp = "ok"
       THEN UNCHANGED <<historyStatus, messageTimeout>>
       ELSE /\ historyStatus' = ErrorMessage(ev'.resp, "Failed to load history")
            /\ messageTimeout' = "historyStatus"
    /\ UNCHANGED <<formVars, listVars, mainStatus, viewNoteModal, lastIssued>>

\* the callback of state.messageTimeout blanks the element it was set for
MessageTimeout ==
    /\ messageTimeout # null
    /\ mainStatus' = IF messageTimeout = "mainStatus" THEN "" ELSE mainStatus
    /\ historyStatus' = IF messageTimeout = "historyStatus" THEN "" ELSE historyStatus
    /\ messageTimeout' = null
    /\ ev' = UserEv("timeout")
    /\ UNCHANGED <<clientVars, inflight, serverVars, formVars, listVars,
                   viewNoteModal, lastIssued, loggedOut>>

\* The page has been loaded with a stored token; with google_link_success=1
\* in the URL checkOAuthRedirectFlags has shown its message for 6000 ms
EditorInit ==
    \E googleLinkSuccess \in BOOLEAN :
    /\ PageLoaded(googleLinkSuccess)
    /\ lsToken # null
    /\ mainStatus = IF googleLinkSuccess THEN DriveConnected ELSE ""
    /\ messageTimeout = IF googleLinkSuccess THEN "mainStatus" ELSE null

EditorNext ==
    \/ \E text \in Titles : InputNoteTitle(text)
    \/ \E text \in Contents : InputTextInput(text)
    \/ NoteFormSubmit
    \/ CancelEditClick
    \/ \E filename \in Filenames : HistoryRowClick(filename)
    \/ ClickHistory /\ TextsUnchanged
    \/ BackToMain /\ TextsUnchanged
    \/ \E i \in 1..Len(inflight) : ServerAnswer(i) /\ TextsUnchanged
    \/ \E i \in 1..Len(inflight) : ProfileLoaded(i)
    \/ \E i \in 1..Len(inflight) : HistoryFetched(i)
    \/ \E i \in 1..Len(inflight) : NoteFormSaved(i)
    \/ MessageTimeout

EditorSpec == EditorInit /\ [][EditorNext]_vars

\* ---------------------------------------------------------------- the History list
\* The caches a /history answer can leave: up to MaxCached notes in any order
Caches ==
    {items \in UNION {[1..n -> Range(IdName)] : n \in 0..MaxCached} :
        \A i, j \in 1..Len(items) : i # j => items[i] # items[j]}

\* The History view after fetchHistory has loaded and rendered a cache
ListInit ==
    /\ notesCache \in {ArrayOf(items) : items \in Caches}
    /\ searchTerm = <<>>
    /\ pinnedNotes = {}
    /\ lsPinnedNotes = <<>>
    /\ selectedNotes = {}
    /\ historyList = renderHistory(notesCache.items, searchTerm, pinnedNotes,
                                   selectedNotes)
    /\ historyRows = RenderedRows(notesCache, {})
    /\ token = SessionToken
    /\ lsToken = SessionToken
    /\ currentView = "history"
    /\ headerActions = TRUE
    /\ editingFilename = null
    /\ userEmail = "user@example.com"
    /\ driveLinked = FALSE
    /\ loading = FALSE
    /\ confirmDisplay = FALSE
    /\ confirms = <<>>
    /\ inflight = <<>>
    /\ serverNotes = Range(notesCache.items)
    /\ serverNextId = Len(IdName) + 1
    /\ noteTitle = <<>>
    /\ textInput = <<>>
    /\ mainStatus = ""
    /\ historyStatus = ""
    /\ viewNoteModal = FALSE
    /\ lastIssued = NoAnswer
    /\ messageTimeout = null
    /\ loggedOut = FALSE
    /\ ev = UserEv("user")

\* SearchNotesInput with a renderHistory that sorts state.notesCache itself
SearchNotesInput_SortsCache(term) ==
    /\ CanClick /\ currentView = "history"
    /\ searchTerm' = term
    /\ notesCache' = ArrayOf(sort(notesCache.items, pinnedNotes))
    /\ historyList' = renderHistory(notesCache'.items, term, pinnedNotes,
                                    selectedNotes)
    /\ historyRows' = Range(NotesToRender(notesCache'.items, term))
    /\ ev' = UserEv("input")
    /\ UNCHANGED <<token, lsToken, currentView, headerActions, editingFilename,
                   selectedNotes, pinnedNotes, lsPinnedNotes,
                   userEmail, driveLinked, loading, confirmDisplay, confirms,
                   inflight, serverVars, formVars, shownVars, lastIssued, loggedOut>>

\* input in #searchNotes: renderHistory(e.target.value)
SearchNotesInput(term) ==
    /\ CanClick /\ currentView = "history" /\ notesCache.isArray
    /\ searchTerm' = term
    /\ historyList' = renderHistory(notesCache.items, term, pinnedNotes,
                                    selectedNotes)
    /\ historyRows' = Range(NotesToRender(notesCache.items, term))
    /\ ev' = UserEv("input")
    /\ UNCHANGED <<token, lsToken, currentView, headerActions, editingFilename,
                   notesCache, selectedNotes, pinnedNotes, lsPinnedNotes,
                   userEmail, driveLinked, loading, confirmDisplay, confirms,
                   inflight, serverVars, formVars, shownVars, lastIssued, loggedOut>>

\* click on the pin button of a row: handlePinNote renders the list again
PinClick(filename) ==
    /\ handlePinNote(filename)
    /\ historyList' = renderHistory(notesCache.items, searchTerm, pinnedNotes',
                                    selectedNotes)
    /\ UNCHANGED <<searchTerm, formVars, shownVars, lastIssued>>

\* click on the checkbox of a row: toggleNoteSelection marks the row in place
CheckboxClick(filename) ==
    /\ toggleNoteSelection(filename)
    /\ historyList' = [k \in 1..Len(historyList) |->
                         IF historyList[k].filename = filename
                         THEN [historyList[k] EXCEPT
                                 !.selected = filename \in selectedNotes']
                         ELSE historyList[k]]
    /\ UNCHANGED <<searchTerm, formVars, shownVars, lastIssued>>

\* click on the view button of a row: handleViewNote displays the modal and
\* leaves the view the row is in as it is
handleViewNote(filename) ==
    /\ CanClick /\ currentView = "history" /\ filename \in historyRows
    /\ notesCache.isArray /\ filename \in Range(notesCache.items)
    /\ viewNoteModal' = TRUE
    /\ ev' = UserEv("view")
    /\ UNCHANGED <<clientVars, inflight, serverVars, formVars, listVars,
                   mainStatus, historyStatus, messageTimeout, lastIssued,
                   loggedOut>>

\* click on #closeViewModal, or on the modal outside its content
CloseViewModal ==
    /\ viewNoteModal
    /\ viewNoteModal' = FALSE
    /\ ev' = UserEv("user")
    /\ UNCHANGED <<clientVars, inflight, serverVars, formVars, listVars,
                   mainStatus, historyStatus, messageTimeout, lastIssued,
                   loggedOut>>

\* keydown Escape while the note modal is displayed and the confirmation
\* modal is not
KeydownEscape_ViewModal ==
    /\ viewNoteModal /\ ~confirmDisplay
    /\ viewNoteModal' = FALSE
    /\ ev' = UserEv("escape")
    /\ UNCHANGED <<clientVars, inflight, serverVars, formVars, listVars,
                   mainStatus, historyStatus, messageTimeout, lastIssued,
                   loggedOut>>

ListNext ==
    \/ \E term \in SearchTerms : SearchNotesInput(term)
    \/ \E filename \in Range(IdName) : PinClick(filename)
    \/ \E filename \in Range(IdName) : CheckboxClick(filename)
    \/ \E filename \in Range(IdName) : handleViewNote(filename)
    \/ CloseViewModal
    \/ KeydownEscape_ViewModal

ListSpec == ListInit /\ [][ListNext]_vars

\* ---------------------------------------------------------------- deleting from the list
\* change of #selectAllNotes: toggleSelectAll marks every row in place
SelectAllChange(checked) ==
    /\ toggleSelectAll(checked)
    /\ historyList' = [k \in 1..Len(historyList) |->
                         [historyList[k] EXCEPT !.selected = checked]]
    /\ UNCHANGED <<searchTerm, formVars, shownVars, lastIssued>>

\* fetchHistory after `await apiRequest("/history")` with the list: the rows
\* are written by renderHistory inside fetchHistory, from the selection as it
\* is then; handleDeleteNote clears state.selectedNotes after `await
\* fetchHistory()` and calls updateBulkActionUI(), which writes no row
HistoryRendered(i) ==
    /\ fetchHistoryResponse(i)
    /\ historyList' = IF ev'.resp = "ok"
                      THEN renderHistory(notesCache'.items, searchTerm,
                                         pinnedNotes, selectedNotes)
                      ELSE historyList
    /\ UNCHANGED <<searchTerm, formVars, shownVars, lastIssued>>

\* The History view shows two notes
DeleteInit == ListInit /\ Len(notesCache.items) = 2

DeleteNext ==
    \/ \E filename \in Range(IdName) : CheckboxClick(filename)
    \/ \E checked \in BOOLEAN : SelectAllChange(checked)
    \/ ClickDeleteSelected /\ TextsUnchanged
    \/ ClickDelete /\ TextsUnchanged
    \/ ConfirmYes /\ TextsUnchanged
    \/ ConfirmNo /\ TextsUnchanged
    \/ \E i \in 1..Len(inflight) : ServerAnswer(i) /\ TextsUnchanged
    \/ \E i \in 1..Len(inflight) : handleDeleteNoteResponse(i) /\ TextsUnchanged
    \/ \E i \in 1..Len(inflight) : HistoryRendered(i)

DeleteSpec == DeleteInit /\ [][DeleteNext]_vars

\* ---------------------------------------------------------------- overlapping refreshes
\* click on #historyBtn, a new /history request being the one issued last
HistoryClick ==
    /\ ClickHistory
    /\ lastIssued' = NoAnswer
    /\ UNCHANGED <<formVars, listVars, shownVars>>

\* fetchHistory after `await apiRequest("/history")`, request i being or not
\* being the /history request issued last: requests are in flight in the
\* order issued, so it is unless a later one is in flight or has been
\* handled already
HistoryAnswered(i) ==
    /\ fetchHistoryResponse(i)
    /\ lastIssued' =
          IF lastIssued # NoAnswer
             \/ \E j \in (i + 1)..Len(inflight) : inflight[j].op = "history"
          THEN lastIssued
          ELSE [resp |-> ev'.resp, list |-> inflight[i].list]
    /\ UNCHANGED <<formVars, listVars, shownVars>>

\* The page has been loaded with a stored token
RaceInit == Init /\ lsToken # null

RaceNext ==
    \/ HistoryClick
    \/ BackToMain /\ TextsUnchanged
    \/ \E noteTitleValue \in Titles : handleSaveNote(noteTitleValue) /\ TextsUnchanged
    \/ \E i \in 1..Len(inflight) : ServerAnswer(i) /\ TextsUnchanged
    \/ \E i \in 1..Len(inflight) : loadUserProfileResponse(i) /\ TextsUnchanged
    \/ \E i \in 1..Len(inflight) : handleSaveNoteResponse(i) /\ TextsUnchanged
    \/ \E i \in 1..Len(inflight) : HistoryAnswered(i)

RaceSpec == RaceInit /\ [][RaceNext]_vars

\* ---------------------------------------------------------------- one request per id
\* handleDeleteSelected of src/unnamed/part_003 and of the second script of
\* src/unnamed/part_001: the selected notes are deleted with one fetch each.
\* The request of a note is answered 2xx ("ack"), answered with another
\* status ("rejected"), or its fetch fails ("networkFailure").
BulkScripts == {"part_003", "part_001"}

FetchOutcomes == {"ack", "rejected", "networkFailure"}

\* `${deletedCount} note(s) deleted successfully.`
CountMessage(deletedCount) ==
    ToString(deletedCount) \o " note(s) deleted successfully."

\* What the promise of the note with outcome o settles with: in part_003 the
\* promise of fetch itself, in part_001 that promise mapped by
\* .then(res => ({ ok: res.ok })).catch(() => ({ ok: false }))
NotePromise(script, o) ==
    IF o = "networkFailure"
    THEN (IF script = "part_001" THEN [rejected |-> FALSE, ok |-> FALSE]
                                 ELSE [rejected |-> TRUE, ok |-> FALSE])
    ELSE [rejected |-> FALSE, ok |-> o = "ack"]

\* The message handleDeleteSelected shows after `await Promise.all(promises)`:
\* the count of the results that are ok, or from the catch when a promise
\* has rejected
DeletionMessage(script, outcome) ==
    LET results == [f \in DOMAIN outcome |-> NotePromise(script, outcome[f])] IN
    IF \E f \in DOMAIN results : results[f].rejected
    THEN "An error occurred during deletion."
    ELSE CountMessage(Cardinality({f \in DOMAIN results : results[f].ok}))

\* The History list of either script with up to MaxSelected notes ticked
BulkInit ==
    /\ selectedNotes \in {S \in SUBSET Range(IdName) :
                             Cardinality(S) \in 1..MaxSelected}
    /\ notesCache = ArrayOf(IdName)
    /\ historyRows = Range(IdName)
    /\ serverNotes = Range(IdName)
    /\ serverNextId = Len(IdName) + 1
    /\ token = SessionToken
    /\ lsToken = SessionToken
    /\ currentView = "history"
    /\ headerActions = TRUE
    /\ editingFilename = null
    /\ pinnedNotes = {}
    /\ lsPinnedNotes = <<>>
    /\ userEmail = "user@example.com"
    /\ driveLinked = FALSE
    /\ loading = FALSE
    /\ confirmDisplay = FALSE
    /\ confirms = <<>>
    /\ inflight = <<>>
    /\ noteTitle = <<>>
    /\ textInput = <<>>
    /\ searchTerm = <<>>
    /\ historyList = <<>>
    /\ mainStatus = ""
    /\ historyStatus = ""
    /\ viewNoteModal = FALSE
    /\ lastIssued = NoAnswer
    /\ messageTimeout = null
    /\ loggedOut = FALSE
    /\ ev = UserEv("user")

\* click on the delete-selected button: handleDeleteSelected up to
\* `await customConfirm(...)`
handleDeleteSelected ==
    /\ CanClick /\ selectedNotes # {} /\ inflight = <<>>
    /\ confirmDisplay' = TRUE
    /\ confirms' = <<[filenames |-> selectedNotes]>>
    /\ ev' = UserEv("user")
    /\ UNCHANGED <<token, lsToken, currentView, headerActions, editingFilename,
                   notesCache, historyRows, selectedNotes, pinnedNotes,
                   lsPinnedNotes, userEmail, driveLinked, loading, inflight,
                   serverVars, formVars, listVars, shownVars, lastIssued, loggedOut>>

\* click on No: handleDeleteSelected returns
handleDeleteSelected_No ==
    /\ confirmDisplay
    /\ confirmDisplay' = FALSE
    /\ confirms' = <<>>
    /\ ev' = UserEv("confirmNo")
    /\ UNCHANGED <<token, lsToken, currentView, headerActions, editingFilename,
                   notesCache, historyRows, selectedNotes, pinnedNotes,
                   lsPinnedNotes, userEmail, driveLinked, loading, inflight,
                   serverVars, formVars, listVars, shownVars, lastIssued, loggedOut>>

\* click on Yes in the page of `script`: one fetch per selected id is
\* started, and handleDeleteSelected awaits Promise.all of them
handleDeleteSelected_Yes(script) ==
    LET ids == SelectSeq(IdName, LAMBDA f : f \in selectedNotes) IN
    /\ confirmDisplay
    /\ confirmDisplay' = FALSE
    /\ confirms' = <<>>
    /\ historyStatus' = "Deleting selected notes..."
    /\ inflight' = [k \in 1..Len(ids) |-> Request("delete", script, ids[k], {})]
    /\ ev' = UserEv("confirmYes")
    /\ UNCHANGED <<token, lsToken, currentView, headerActions, editingFilename,
                   notesCache, historyRows, selectedNotes, pinnedNotes,
                   lsPinnedNotes, userEmail, driveLinked, loading, serverVars,
                   formVars, listVars, mainStatus, viewNoteModal, lastIssued,
                   messageTimeout, loggedOut>>

\* handleDeleteSelected after `await Promise.all(promises)`, the fetches
\* having ended as `outcome` says: the message, then in the finally the
\* selection is cleared and fetchHistory() runs up to its await, which puts
\* its own text into the same element when a user is logged in
handleDeleteSelected_Settled(outcome) ==
    LET script == inflight[1].cont
        acknowledged == {f \in DOMAIN outcome : outcome[f] = "ack"}
        message == DeletionMessage(script, outcome) IN
    /\ inflight # <<>> /\ inflight[1].op = "delete" /\ script \in BulkScripts
    /\ DOMAIN outcome = {inflight[k].filename : k \in 1..Len(inflight)}
    /\ serverNotes' = serverNotes \ acknowledged
    /\ selectedNotes' = {}
    /\ historyStatus' = IF token # null THEN "Loading notes..." ELSE message
    /\ inflight' = IF token # null
                   THEN <<Request("history", script, null, {})>> ELSE <<>>
    /\ ev' = Ev("response", "deleteSelected", script, message, acknowledged)
    /\ UNCHANGED <<token, lsToken, currentView, headerActions, editingFilename,
                   notesCache, historyRows, pinnedNotes, lsPinnedNotes,
                   userEmail, driveLinked, loading, confirmDisplay, confirms,
                   serverNextId, formVars, listVars, mainStatus, viewNoteModal, lastIssued,
                   messageTimeout, loggedOut>>

\* fetchHistory of these scripts after `await fetch(.../history)`
fetchHistory_Settled(ok) ==
    /\ inflight # <<>> /\ inflight[1].op = "history"
    /\ inflight[1].cont \in BulkScripts
    /\ inflight' = <<>>
    /\ notesCache' = IF ok THEN ArrayOf(ServerList) ELSE notesCache
    /\ historyRows' = IF ok THEN serverNotes ELSE historyRows
    /\ historyStatus' = IF ok THEN "" ELSE "Could not load notes."
    /\ ev' = Ev("response", "history", inflight[1].cont,
                IF ok THEN "ok" ELSE "error", {})
    /\ UNCHANGED <<token, lsToken, currentView, headerActions, editingFilename,
                   selectedNotes, pinnedNotes, lsPinnedNotes, userEmail,
                   driveLinked, loading, confirmDisplay, confirms, serverVars,
                   formVars, listVars, mainStatus, viewNoteModal, lastIssued,
                   messageTimeout, loggedOut>>

BulkNext ==
    \/ handleDeleteSelected
    \/ handleDeleteSelected_No
    \/ \E script \in BulkScripts : handleDeleteSelected_Yes(script)
    \/ \E ids \in SUBSET Range(IdName) : \E outcome \in [ids -> FetchOutcomes] :
          handleDeleteSelected_Settled(outcome)
    \/ \E ok \in BOOLEAN : fetchHistory_Settled(ok)

BulkSpec == BulkInit /\ [][BulkNext]_vars

\* ---------------------------------------------------------------- properties
CacheIds == Range(notesCache.items)

Responded(op) == ev.type = "response" /\ ev.op = op

\* The requests a step sends: what inflight' holds beyond position n, when
\* the step only appends
Sent == IF Len(inflight') > Len(inflight)
           /\ SubSeq(inflight', 1, Len(inflight)) = inflight
        THEN SubSeq(inflight', Len(inflight) + 1, Len(inflight'))
        ELSE <<>>

\* C1: whenever a request (/me, /history, /save, /delete, /auth/google/start)
\* is answered with an authentication rejection, the handler leaves the token
\* removed from memory and from local storage and the view Login.
C1_AuthRejectionForcesLogout ==
    (ev.type = "response" /\ ev.resp = "authReject")
        => (token = null /\ lsToken = null /\ currentView = "login")

\* A pending confirmation whose modal was dismissed with Escape: the modal is
\* hidden, or a later confirmation has been opened over it
Escaped(k) == k < Len(confirms) \/ ~confirmDisplay

\* C2: no step sends the /delete of a confirmation that was dismissed with
\* Escape, also not the answer Yes to a later confirmation.
C2_EscapedDeleteNeverSent ==
    [][\A k \in 1..Len(confirms) :
          Escaped(k) =>
              ~(/\ confirms' = <<>>
                /\ Len(Sent) >= k
                /\ Sent[k].op = "delete"
                /\ Sent[k].filenames = confirms[k].filenames)]_vars

\* C3: neither invoking a delete (which opens the confirmation) nor answering
\* No sends a request or changes the Local Cache or the Selection Set.
C3_DeclinedDeleteChangesNothing ==
    [][(ev'.type = "confirmNo" \/ Len(confirms') > Len(confirms))
          => UNCHANGED <<inflight, notesCache, selectedNotes>>]_vars

\* C3 witness: the user has answered No to the delete of selected, cached notes
C3_Witness ==
    /\ ev.type = "confirmNo"
    /\ selectedNotes # {}
    /\ selectedNotes \subseteq CacheIds

\* C4: when handleDeleteNote has finished after an acknowledged /delete, none
\* of the deleted ids is in the Local Cache and the Selection Set is empty,
\* whatever the outcome of the /history refresh.
C4_DeletedNotesLeaveCache ==
    (Responded("history") /\ ev.cont = "delete")
        => (ev.filenames \cap CacheIds = {} /\ selectedNotes = {})

MutatingOps == {"login", "register", "save", "delete"}

\* C5: neither sending a /login, /register, /save or /delete request nor
\* handling its failure (network error or non-2xx answer) changes the Local
\* Cache, the Selection Set, the Pinned Set, the token or the view.
C5_FailedRequestChangesNothing ==
    [][(\/ /\ ev'.type = "response"
             /\ ev'.op \in MutatingOps
             /\ ev'.resp \in {"error", "authReject"}
          \/ \E k \in 1..Len(Sent) : Sent[k].op \in MutatingOps)
          => UNCHANGED <<notesCache, selectedNotes, pinnedNotes, lsPinnedNotes,
                         token, lsToken, currentView>>]_vars

\* C5 witness: a /delete has failed while notes are cached, selected and pinned
C5_Witness ==
    /\ Responded("delete")
    /\ ev.resp \in {"error", "authReject"}
    /\ CacheIds # {}
    /\ selectedNotes # {}
    /\ pinnedNotes # {}
    /\ token # null

\* C6: a /history request that fails (network error, non-2xx answer, or a 2xx
\* body that is not a JSON list) leaves the Local Cache as it was.
C6_FailedRefreshKeepsCache ==
    [][(/\ ev'.type = "response"
        /\ ev'.op = "history"
        /\ ev'.resp \in {"error", "authReject", "malformed"})
          => notesCache' = notesCache]_vars

\* C7: every id in the Selection Set is the id of a note in the Local Cache.
C7_SelectionWithinCache == selectedNotes \subseteq CacheIds

\* C8: when initializeApp has finished after a start with a stored token, the
\* view is main only if /me accepted the token, and after a rejection the
\* view is Login with the token cleared.
C8_StartupViewFollowsProfile ==
    (Responded("me") /\ ev.cont = "init")
        => /\ currentView = "main" => ev.resp = "ok"
           /\ ev.resp = "authReject"
                 => (currentView = "login" /\ token = null /\ lsToken = null)

\* C9: from a logout until the next successful login the token is absent,
\* userEmail is null and the view is Login or Register.
C9_LoggedOutStaysLoggedOut ==
    loggedOut => /\ token = null
                 /\ lsToken = null
                 /\ userEmail = null
                 /\ currentView \in {"login", "register"}

\* C10: once a successful save or a confirmed, acknowledged delete has
\* completed and no request is in flight, the Local Cache equals the server's
\* note list.
C10_CacheEqualsServerAfterMutation ==
    (/\ \/ Responded("save") /\ ev.resp = "ok"
        \/ Responded("history") /\ ev.cont = "delete"
     /\ inflight = <<>>)
        => notesCache = ArrayOf(ServerList)

\* C11: a /history response (here: the server's note list, answered 2xx) that
\* arrives while the view is not History changes neither the Local Cache nor
\* the rows of the list.
C11_StaleHistoryResponseDiscarded ==
    [][(/\ ev'.type = "response" /\ ev'.op = "history" /\ ev'.resp = "ok"
        /\ currentView # "history")
          => UNCHANGED <<notesCache, historyRows>>]_vars

\* C12: submitting the note form while the title is empty or only whitespace
\* sends no /save request (no /save is sent while the title trims to nothing)
\* and leaves the fields, editingFilename and the Local Cache unchanged.
C12_BlankTitleSendsNothing ==
    [][/\ (\E k \in 1..Len(Sent) : Sent[k].op = "save") => trim(noteTitle) # <<>>
       /\ ev'.type = "titleRequired"
             => /\ trim(noteTitle) = <<>>
                /\ UNCHANGED <<inflight, noteTitle, textInput, editingFilename,
                               notesCache>>]_vars

\* C12 witness: a whitespace title has been submitted over a content, in
\* edit mode
C12_Witness ==
    /\ ev.type = "titleRequired"
    /\ noteTitle = <<" ">>
    /\ textInput # <<>>
    /\ editingFilename # null

\* C13: handling a successful /save leaves the fields blank and
\* editingFilename null; handling a failed /save leaves the title, the
\* content and editingFilename as they are.
C13_EditorAfterSave ==
    [][(ev'.type = "response" /\ ev'.op = "save")
          => IF ev'.resp = "ok"
             THEN noteTitle' = <<>> /\ textInput' = <<>> /\ editingFilename' = null
             ELSE UNCHANGED <<noteTitle, textInput, editingFilename>>]_vars

\* C13 witness: a /save sent in edit mode has failed over a filled form
C13_Witness ==
    /\ Responded("save")
    /\ ev.resp = "error"
    /\ trim(noteTitle) # <<>>
    /\ textInput # <<>>
    /\ editingFilename # null

\* The number of times text occurs in the sequence s
Occurrences(s, text) == Cardinality({k \in 1..Len(s) : s[k] = text})

\* C14: every /save request carries state.editingFilename as it is when the
\* form is submitted (the id of the note in edit mode, or none), and a
\* successful refresh lists no note twice and no more notes than the server
\* has created.
C14_SaveCarriesEditedId ==
    [][/\ \A k \in 1..Len(Sent) :
             Sent[k].op = "save" => Sent[k].filename = editingFilename
       /\ (ev'.type = "response" /\ ev'.op = "history" /\ ev'.resp = "ok")
             => /\ \A f \in Filenames : Occurrences(notesCache'.items, f) <= 1
                /\ Len(notesCache'.items) <= serverNextId' - 1]_vars

\* C14 witness: the server has carried out a save sent in edit mode for n1
\* and holds that one note
C14_Witness ==
    /\ serverNotes = {"n1"}
    /\ \E k \in 1..Len(inflight) :
          /\ inflight[k].op = "save"
          /\ inflight[k].filename = "n1"
          /\ inflight[k].resp = "ok"

\* The filenames of the rows of the list, in the order displayed
ListedNotes == [k \in 1..Len(historyList) |-> historyList[k].filename]

TextOf(text) == IF text = undefined THEN <<>> ELSE text

\* C16: every cached note, also one whose title or content is empty or
\* missing, is shown if and only if its title or its content contains the
\* search term ignoring case; so with the empty term every cached note is
\* shown.
C16_ShownIffContainsTerm ==
    \A f \in Range(notesCache.items) :
        f \in Range(ListedNotes)
            <=> \/ includes(toLowerCase(TextOf(NoteOf(f).title)),
                            toLowerCase(searchTerm))
                \/ includes(toLowerCase(TextOf(NoteOf(f).filecontent)),
                            toLowerCase(searchTerm))

\* C17: a run of renderHistory on a search keystroke changes neither the
\* Local Cache nor the Selection Set nor the Pinned Set, the list it writes
\* is a function of cache, term, pins and selection, and with these
\* unchanged the list is as it was.
C17_RenderHasNoSideEffect ==
    [][ev'.type = "input"
          => /\ UNCHANGED <<notesCache, selectedNotes, pinnedNotes>>
             /\ historyList' = renderHistory(notesCache'.items, searchTerm',
                                             pinnedNotes', selectedNotes')
             /\ searchTerm' = searchTerm => historyList' = historyList]_vars

\* C17 witness: the list has been rendered again on a keystroke, over a
\* cache that is not in display order, with a pin and a selection
C17_Witness ==
    /\ ev.type = "input"
    /\ searchTerm # <<>>
    /\ Len(historyList) >= 2
    /\ ListedNotes # NotesToRender(notesCache.items, searchTerm)
    /\ pinnedNotes # {}
    /\ selectedNotes # {}

\* C18: a successful /register leaves the token as it is (unset) and makes
\* the view Login; a /login that returns a token stores it in memory and in
\* local storage; and when handleAuth has finished after that login the view
\* is main with the token held.
C18_RegisterThenLoginReachesEditor ==
    [][/\ (ev'.type = "response" /\ ev'.op = "register" /\ ev'.resp = "ok")
             => (token' = token /\ lsToken' = lsToken /\ currentView' = "login")
       /\ (\E k \in 1..Len(Sent) : Sent[k].cont = "auth")
             => (token' = SessionToken /\ lsToken' = SessionToken)
       /\ (ev'.type = "response" /\ ev'.op = "me" /\ ev'.cont = "auth")
             => (currentView' = "main" /\ token' # null /\ lsToken' # null)]_vars

\* C19: when the user leaves the History view (Back to main, opening a note
\* in the editor, logout) and when the user logs out, the Selection Set is
\* empty afterwards.
C19_SelectionClearedOnLeave ==
    [][(\/ ev'.type = "user" /\ currentView = "history" /\ currentView' # "history"
        \/ ~loggedOut /\ loggedOut')
          => selectedNotes' = {}]_vars

\* C20: when the user leaves the Editor (opening History, logout) the editor
\* is not in edit mode afterwards.
C20_EditModeClearedOnLeave ==
    [][(ev'.type = "user" /\ currentView = "main" /\ currentView' # "main")
          => editingFilename' = null]_vars

\* C21: after every pin toggle, and at every other moment, the list of
\* pinned ids in local storage holds exactly the ids of the Pinned Set, each
\* once; so the Set a reload builds from the stored list is the Pinned Set.
C21_StoredPinsEqualPinnedSet ==
    /\ ParsedPins(lsPinnedNotes) = pinnedNotes
    /\ Len(lsPinnedNotes) = Cardinality(pinnedNotes)

\* C21 witness: the page has been loaded again after a pin, and the script
\* has started from the stored list
C21_Witness ==
    /\ currentView = "" /\ token # null
    /\ lsPinnedNotes # <<>>
    /\ pinnedNotes = ParsedPins(lsPinnedNotes)

\* C22: after logout the Pinned Set is empty in memory and in local storage.
C22_PinsClearedOnLogout ==
    loggedOut => (pinnedNotes = {} /\ lsPinnedNotes = <<>>)

\* C23: whenever no request is in flight, every request issued having been
\* answered (with a 2xx answer or with an error) and its handler having
\* finished, the loading indicator is off.
C23_LoaderOffWhenIdle == inflight = <<>> => ~loading

\* C23 witness: the last request in flight has failed, its handler has
\* finished, and the indicator is off
C23_Witness ==
    /\ ev.type = "response" /\ ev.resp = "error"
    /\ inflight = <<>>
    /\ ~loading

\* C24: whenever a login, register, refresh, save or delete request is in
\* flight, the loading indicator is on.
C24_LoaderOnWhileInFlight ==
    (\E k \in 1..Len(inflight) :
        inflight[k].op \in {"login", "register", "history", "save", "delete"})
      => loading

\* C27: the Local Cache holds at most one entry per note id.
C27_CacheUniqueness ==
    \A f \in Range(IdName) : Occurrences(notesCache.items, f) <= 1

\* C27 witness: a refresh has been answered and the cache holds the notes
\* of the answer, each once
C27_Witness ==
    /\ Responded("history") /\ ev.resp = "ok"
    /\ notesCache.isArray /\ notesCache.items # <<>>
    /\ Occurrences(notesCache.items, notesCache.items[1]) = 1

\* The view panels of UI.views that are displayed
DisplayedPanels ==
    (IF currentView = "" THEN {} ELSE {currentView})
        \cup (IF viewNoteModal THEN {"viewNoteModal"} ELSE {})

\* C25: once startup has completed, exactly one of the five view panels
\* (login, register, main, history, note-detail modal) is displayed.
C25_ExactlyOnePanelDisplayed ==
    currentView # "" => Cardinality(DisplayedPanels) = 1

\* C30: when handleSaveNote has finished after a 2xx answer to /save, and
\* until the timeout or another handler runs, the status line of the Editor
\* shows the message of the answer.
C30_SaveMessageShown ==
    (Responded("save") /\ ev.resp = "ok") => mainStatus = SaveMessage

\* C26: a submit of the login or of the register form whose email or
\* password is empty sends no request.
C26_EmptyCredentialsSendNothing ==
    [][ev'.type = "emptyCredentials" => Sent = <<>>]_vars

\* C29: whenever a handler has finished, each row of the History list is
\* marked selected if and only if its id is in the Selection Set.
C29_RowsMarkedIffSelected ==
    \A k \in 1..Len(historyList) :
        historyList[k].selected <=> historyList[k].filename \in selectedNotes

\* C28: for every combination of outcomes of the requests of the selected
\* ids (acknowledged, rejected by the server, network failure), the message
\* handleDeleteSelected shows reports the number of ids the server
\* acknowledged.
C28_ReportsAcknowledgedCount ==
    (ev.type = "response" /\ ev.op = "deleteSelected")
      => ev.resp = CountMessage(Cardinality(ev.filenames))

\* C36: whenever the current view is the Editor (main) or History, a session
\* token is held.
C36_TokenHeldInEditorAndHistory ==
    currentView \in {"main", "history"} => token # null

\* C37: after logout, and until the next login succeeds, the Local Cache
\* holds no note.
C37_CacheEmptyAfterLogout == loggedOut => CacheIds = {}

\* The notes this client has deleted with an acknowledged /delete: assigned
\* by the server, no longer stored, and no /delete naming them in flight
AcknowledgedDeleted ==
    {f \in Filenames :
        /\ \E k \in 1..(serverNextId - 1) : IdSeq[k] = f
        /\ f \notin serverNotes
        /\ \A k \in 1..Len(inflight) :
              inflight[k].op = "delete" => f \notin inflight[k].filenames}

\* C38: no /save request is sent carrying the id of a note this client has
\* deleted with an acknowledged /delete; and when handleDeleteNote has
\* finished, the note open in the editor is none of the notes it deleted.
C38_NoSaveOfDeletedNote ==
    [][/\ \A k \in 1..Len(Sent) :
             Sent[k].op = "save" => Sent[k].filename \notin AcknowledgedDeleted
       /\ (ev'.type = "response" /\ ev'.op = "history" /\ ev'.cont = "delete")
             => editingFilename' \notin ev'.filenames]_vars

\* C39: when the 2xx answer to a /save arrives after the user has opened
\* another note for editing than the one the request was sent for,
\* editingFilename still names the note opened during the flight.
C39_SaveResponseKeepsNewerEdit ==
    [][\A i \in 1..Len(inflight) :
          (/\ inflight[i].op = "save"
           /\ inflight' = Remove(inflight, i)
           /\ ev'.type = "response" /\ ev'.op = "save" /\ ev'.resp = "ok"
           /\ editingFilename # null
           /\ editingFilename # inflight[i].filename)
             => editingFilename' = editingFilename]_vars

\* C40: when the answers to all /history requests have arrived, in whatever
\* order, the Local Cache equals the list returned to the request that was
\* issued last (here: both that answer and the one that arrived last being
\* 2xx lists).
C40_CacheIsAnswerToLastIssued ==
    (/\ Responded("history") /\ ev.resp = "ok"
     /\ \A k \in 1..Len(inflight) : inflight[k].op # "history"
     /\ lastIssued.resp = "ok")
      => notesCache = ArrayOf(lastIssued.list)

\* ---- status messages and the one timer of showMessage
\* What runs without the user: the server's answers, the continuations of
\* the pending awaits and the callback of setTimeout
MessageNext ==
    \/ \E text \in Titles : InputNoteTitle(text)
    \/ NoteFormSubmit
    \/ ClickHistory /\ TextsUnchanged
    \/ BackToMain /\ TextsUnchanged
    \/ \E i \in 1..Len(inflight) : ServerAnswer(i) /\ TextsUnchanged
    \/ \E i \in 1..Len(inflight) : ProfileLoaded(i)
    \/ \E i \in 1..Len(inflight) : HistoryFetched(i)
    \/ \E i \in 1..Len(inflight) : NoteFormSaved(i)
    \/ MessageTimeout

MessageFairness ==
    /\ WF_vars(\E i \in 1..Len(inflight) : ServerAnswer(i) /\ TextsUnchanged)
    /\ WF_vars(\E i \in 1..Len(inflight) : ProfileLoaded(i))
    /\ WF_vars(\E i \in 1..Len(inflight) : HistoryFetched(i))
    /\ WF_vars(\E i \in 1..Len(inflight) : NoteFormSaved(i))
    /\ WF_vars(MessageTimeout)

MessageSpec == EditorInit /\ [][MessageNext]_vars /\ MessageFairness

\* C31: a message put into #mainStatus or #historyStatus with a duration is
\* blanked again by the timer alone, whatever is shown elsewhere meanwhile
C31_MessagesAreCleared ==
    /\ (mainStatus # "") ~> (mainStatus = "")
    /\ (historyStatus # "") ~> (historyStatus = "")

\* ---------------------------------------------------------------- part_002
\* The script of src/unnamed/part_002.  Its renderHistory filters and sorts
\* as the one above does, and clears the selection when no note is left to
\* render; its apiRequest calls logout() on status 401 before it throws; its
\* fetchHistory empties the cache in the catch; its showView only switches
\* the sections.
Outcomes_part_002 == {"ok", "authReject", "error"}

\* error.message of what apiRequest throws
ErrorMessage_part_002(outcome) ==
    IF outcome = "authReject" THEN "Unauthorized - please login again."
    ELSE "An unknown error occurred"

\* state.selectedNotes after renderHistory(term) on the cache `items`
SelectionRendered_part_002(items, term, selected) ==
    IF NotesToRender(items, term) = <<>> THEN {} ELSE selected

\* input in #searchNotes: renderHistory(e.target.value)
SearchNotesInput_part_002(term) ==
    /\ CanClick /\ currentView = "history" /\ term # searchTerm
    /\ searchTerm' = term
    /\ selectedNotes' = SelectionRendered_part_002(notesCache.items, term,
                                                   selectedNotes)
    /\ historyList' = renderHistory(notesCache.items, term, pinnedNotes,
                                    selectedNotes')
    /\ historyRows' = Range(NotesToRender(notesCache.items, term))
    /\ ev' = UserEv("input")
    /\ UNCHANGED <<token, lsToken, currentView, headerActions, editingFilename,
                   notesCache, pinnedNotes, lsPinnedNotes, userEmail,
                   driveLinked, loading, confirmDisplay, confirms, inflight,
                   serverVars, formVars, shownVars, lastIssued, loggedOut>>

\* click on the checkbox of a row: toggleNoteSelection(filename)
toggleNoteSelection_part_002(filename) == CheckboxClick(filename)

\* click on #backToMain: showView("main")
BackToMain_part_002 ==
    /\ CanClick /\ currentView = "history"
    /\ currentView' = "main"
    /\ ev' = UserEv("user")
    /\ UNCHANGED <<token, lsToken, headerActions, editingFilename, notesCache,
                   historyRows, selectedNotes, pinnedNotes, lsPinnedNotes,
                   userEmail, driveLinked, loading, confirmDisplay, confirms,
                   inflight, serverVars, formVars, listVars, shownVars,
                   lastIssued, loggedOut>>

\* click on #historyBtn: the listener calls fetchHistory(), which runs up to
\* `await apiRequest("/history")`
HistoryButton_part_002 ==
    /\ CanClick /\ currentView = "main" /\ CanSend
    /\ loading' = TRUE
    /\ inflight' = Append(inflight, Request("history", "part_002", null, {}))
    /\ ev' = UserEv("user")
    /\ UNCHANGED <<token, lsToken, currentView, headerActions, editingFilename,
                   notesCache, historyRows, selectedNotes, pinnedNotes,
                   lsPinnedNotes, userEmail, driveLinked, confirmDisplay,
                   confirms, serverVars, formVars, listVars, shownVars,
                   lastIssued, loggedOut>>

\* The request i of the button is answered: 2xx with the stored list ("ok",
\* only for a request that carried the token), status 401 ("authReject") or
\* any other failure ("error").  apiRequest calls logout() on 401 and
\* throws; fetchHistory assigns the list and renders it, or in its catch
\* shows the message, empties the cache and renders; then the listener goes
\* on after `await fetchHistory()` with showView("history").
fetchHistory_Settled_part_002(i, outcome) ==
    LET t == inflight[i]
        items == IF outcome = "ok" THEN ServerList ELSE <<>> IN
    /\ t.op = "history" /\ t.cont = "part_002"
    /\ outcome = "ok" => t.auth
    /\ inflight' = Remove(inflight, i)
    /\ IF outcome = "authReject"
       THEN /\ lsToken' = null
            /\ token' = null
            /\ userEmail' = null
            /\ driveLinked' = FALSE
            /\ headerActions' = FALSE
            /\ mainStatus' = "Logged out."
            /\ loggedOut' = TRUE
       ELSE UNCHANGED <<lsToken, token, userEmail, driveLinked, headerActions,
                        mainStatus, loggedOut>>
    /\ notesCache' = ArrayOf(items)
    /\ selectedNotes' = SelectionRendered_part_002(items, searchTerm,
                                                   selectedNotes)
    /\ historyList' = renderHistory(items, searchTerm, pinnedNotes,
                                    selectedNotes')
    /\ historyRows' = Range(NotesToRender(items, searchTerm))
    /\ IF outcome = "ok"
       THEN UNCHANGED <<historyStatus, messageTimeout>>
       ELSE /\ historyStatus' = ErrorMessage_part_002(outcome)
            /\ messageTimeout' = "historyStatus"
    /\ loading' = FALSE
    /\ currentView' = "history"
    /\ ev' = Ev("response", "history", "part_002", outcome, {})
    /\ UNCHANGED <<editingFilename, pinnedNotes, lsPinnedNotes, confirmDisplay,
                   confirms, serverVars, formVars, searchTerm, viewNoteModal,
                   lastIssued>>

Next_part_002 ==
    \/ \E term \in SearchTerms : SearchNotesInput_part_002(term)
    \/ \E filename \in Range(IdName) : toggleNoteSelection_part_002(filename)
    \/ BackToMain_part_002
    \/ HistoryButton_part_002
    \/ \E i \in 1..Len(inflight) : \E outcome \in Outcomes_part_002 :
          fetchHistory_Settled_part_002(i, outcome)

Spec_part_002 == ListInit /\ [][Next_part_002]_vars

\* C32: a /history request of part_002 that fails leaves state.notesCache
\* as it was
C32_FailedHistoryKeepsCache ==
    [][(/\ ev'.type = "response" /\ ev'.op = "history"
        /\ ev'.cont = "part_002" /\ ev'.resp # "ok")
          => notesCache' = notesCache]_vars

\* C33: input in the search box of part_002 leaves state.selectedNotes as it
\* was, also when the term matches no note
C33_SearchKeepsSelection ==
    [][ev'.type = "input" => selectedNotes' = selectedNotes]_vars

\* C34: when the /history request of the View History button of part_002 is
\* answered with 401, the handler ends in the Login view without a token
C34_UnauthorizedHistoryEndsInLogin ==
    [][(/\ ev'.type = "response" /\ ev'.op = "history"
        /\ ev'.cont = "part_002" /\ ev'.resp = "authReject")
          => (currentView' = "login" /\ token' = null)]_vars

\* ---------------------------------------------------------------- part_000
\* The script of src/unnamed/part_000.  Its apiRequest throws on every
\* answer that is not 2xx and on a failed fetch alike; its loadUserProfile
\* calls handleLogout() in the catch; showView("history") calls loadHistory().
StoredNotes_part_000 == {"n1", "n2"}

\* The page has been loaded with a stored token and stored pins:
\* initializeApp displays the logout button and awaits loadUserProfile()
Init_part_000 ==
    /\ lsPinnedNotes \in {StoredPins(S) : S \in SUBSET StoredNotes_part_000}
    /\ pinnedNotes = ParsedPins(lsPinnedNotes)
    /\ lsToken = SessionToken
    /\ token = lsToken
    /\ currentView = ""
    /\ headerActions = TRUE
    /\ editingFilename = null
    /\ notesCache = ArrayOf(<<>>)
    /\ historyRows = {}
    /\ selectedNotes = {}
    /\ userEmail = null
    /\ driveLinked = FALSE
    /\ loading = TRUE
    /\ confirmDisplay = FALSE
    /\ confirms = <<>>
    /\ inflight = <<Request("profile", "part_000", null, {})>>
    /\ serverNotes = StoredNotes_part_000
    /\ serverNextId = Len(IdName) + 1
    /\ noteTitle = <<>>
    /\ textInput = <<>>
    /\ searchTerm = <<>>
    /\ historyList = <<>>
    /\ mainStatus = ""
    /\ historyStatus = ""
    /\ viewNoteModal = FALSE
    /\ lastIssued = NoAnswer
    /\ messageTimeout = null
    /\ loggedOut = FALSE
    /\ ev = UserEv("user")

\* handleLogout(): what it assigns, but for the view
LoggedOut_part_000 ==
    /\ lsToken' = null
    /\ lsPinnedNotes' = <<>>
    /\ token' = null
    /\ userEmail' = null
    /\ pinnedNotes' = {}
    /\ headerActions' = FALSE
    /\ loggedOut' = TRUE

\* click on the logout button: handleLogout()
handleLogout_part_000 ==
    /\ CanClick /\ headerActions
    /\ LoggedOut_part_000
    /\ currentView' = "login"
    /\ ev' = UserEv("logout")
    /\ UNCHANGED <<editingFilename, notesCache, historyRows, selectedNotes,
                   driveLinked, loading, confirmDisplay, confirms, inflight,
                   serverVars, formVars, listVars, shownVars, lastIssued>>

\* submit of the login form: handleLogin up to `await apiRequest("/login", ...)`
handleLogin_part_000 ==
    /\ CanClick /\ currentView = "login" /\ CanSend
    /\ loading' = TRUE
    /\ inflight' = Append(inflight, Request("login", "part_000", null, {}))
    /\ ev' = UserEv("user")
    /\ UNCHANGED <<token, lsToken, currentView, headerActions, editingFilename,
                   notesCache, historyRows, selectedNotes, pinnedNotes,
                   lsPinnedNotes, userEmail, driveLinked, confirmDisplay,
                   confirms, serverVars, formVars, listVars, shownVars,
                   lastIssued, loggedOut>>

\* handleLogin after its await: with the token of a 2xx answer it calls
\* initializeApp(), which displays the logout button and runs
\* loadUserProfile() up to `await apiRequest("/profile")`; the catch shows
\* the message of the error
handleLogin_Settled_part_000(i, ok) ==
    LET t == inflight[i] IN
    /\ t.op = "login" /\ t.cont = "part_000"
    /\ IF ok
       THEN /\ token' = SessionToken
            /\ lsToken' = SessionToken
            /\ headerActions' = TRUE
            /\ loggedOut' = FALSE
            /\ inflight' = Append(Remove(inflight, i),
                                  RequestWith("profile", "part_000", null, {},
                                              SessionToken))
            /\ UNCHANGED <<loading, messageTimeout>>
       ELSE /\ inflight' = Remove(inflight, i)
            /\ loading' = FALSE
            /\ messageTimeout' = "loginStatus"
            /\ UNCHANGED <<token, lsToken, headerActions, loggedOut>>
    /\ ev' = Ev("response", "login", "part_000", IF ok THEN "ok" ELSE "error", {})
    /\ UNCHANGED <<currentView, editingFilename, notesCache, historyRows,
                   selectedNotes, pinnedNotes, lsPinnedNotes, userEmail,
                   driveLinked, confirmDisplay, confirms, serverVars, formVars,
                   listVars, mainStatus, historyStatus, viewNoteModal,
                   lastIssued>>

\* loadUserProfile after `await apiRequest("/profile")`: the profile of a 2xx
\* answer ("ok", only for a request that carried the token) is stored; a
\* rejection of the session ("authReject") and any other failure ("error")
\* reach the same catch, which calls handleLogout().  initializeApp then goes
\* on with showView("main") and showLoader(false).
loadUserProfile_Settled_part_000(i, outcome) ==
    LET t == inflight[i] IN
    /\ t.op = "profile" /\ t.cont = "part_000"
    /\ outcome = "ok" => t.auth
    /\ inflight' = Remove(inflight, i)
    /\ IF outcome = "ok"
       THEN /\ userEmail' \in ProfileEmails
            /\ driveLinked' \in ProfileDriveLinked
            /\ UNCHANGED <<lsToken, lsPinnedNotes, token, pinnedNotes,
                           headerActions, loggedOut>>
       ELSE /\ LoggedOut_part_000
            /\ UNCHANGED driveLinked
    /\ currentView' = "main"
    /\ loading' = FALSE
    /\ ev' = Ev("response", "profile", "part_000", outcome, {})
    /\ UNCHANGED <<editingFilename, notesCache, historyRows, selectedNotes,
                   confirmDisplay, confirms, serverVars, formVars, listVars,
                   shownVars, lastIssued>>

\* click on the history button: showView('history'), which calls
\* loadHistory() up to `await apiRequest("/history")`
ViewHistory_part_000 ==
    /\ CanClick /\ currentView = "main" /\ CanSend
    /\ currentView' = "history"
    /\ loading' = TRUE
    /\ inflight' = Append(inflight, Request("history", "part_000", null, {}))
    /\ ev' = UserEv("user")
    /\ UNCHANGED <<token, lsToken, headerActions, editingFilename, notesCache,
                   historyRows, selectedNotes, pinnedNotes, lsPinnedNotes,
                   userEmail, driveLinked, confirmDisplay, confirms, serverVars,
                   formVars, listVars, shownVars, lastIssued, loggedOut>>

\* loadHistory after its await: data.notes becomes the cache and is rendered,
\* or the catch shows "Failed to load history."
loadHistory_Settled_part_000(i, ok) ==
    LET t == inflight[i] IN
    /\ t.op = "history" /\ t.cont = "part_000"
    /\ ok => t.auth
    /\ inflight' = Remove(inflight, i)
    /\ IF ok
       THEN /\ notesCache' = ArrayOf(ServerList)
            /\ historyRows' = Range(NotesToRender(ServerList, searchTerm))
            /\ historyList' = renderHistory(ServerList, searchTerm, pinnedNotes,
                                            selectedNotes)
            /\ UNCHANGED <<historyStatus, messageTimeout>>
       ELSE /\ historyStatus' = "Failed to load history."
            /\ messageTimeout' = "historyStatus"
            /\ UNCHANGED <<notesCache, historyRows, historyList>>
    /\ loading' = FALSE
    /\ ev' = Ev("response", "history", "part_000", IF ok THEN "ok" ELSE "error", {})
    /\ UNCHANGED <<token, lsToken, currentView, headerActions, editingFilename,
                   selectedNotes, pinnedNotes, lsPinnedNotes, userEmail,
                   driveLinked, confirmDisplay, confirms, serverVars, formVars,
                   searchTerm, mainStatus, viewNoteModal, lastIssued, loggedOut>>

\* click on the pin button of a row: togglePinNote stores the pins and
\* renders the list again
togglePinNote_part_000(filename) ==
    /\ CanClick /\ currentView = "history" /\ filename \in historyRows
    /\ pinnedNotes' = IF filename \in pinnedNotes
                      THEN pinnedNotes \ {filename}
                      ELSE pinnedNotes \cup {filename}
    /\ lsPinnedNotes' = StoredPins(pinnedNotes')
    /\ historyList' = renderHistory(notesCache.items, searchTerm, pinnedNotes',
                                    selectedNotes)
    /\ ev' = UserEv("pin")
    /\ UNCHANGED <<token, lsToken, currentView, headerActions, editingFilename,
                   notesCache, historyRows, selectedNotes, userEmail,
                   driveLinked, loading, confirmDisplay, confirms, inflight,
                   serverVars, formVars, searchTerm, shownVars, lastIssued,
                   loggedOut>>

\* click on the back button: showView('main')
BackToMain_part_000 ==
    /\ CanClick /\ currentView = "history"
    /\ currentView' = "main"
    /\ ev' = UserEv("user")
    /\ UNCHANGED <<token, lsToken, headerActions, editingFilename, notesCache,
                   historyRows, selectedNotes, pinnedNotes, lsPinnedNotes,
                   userEmail, driveLinked, loading, confirmDisplay, confirms,
                   inflight, serverVars, formVars, listVars, shownVars,
                   lastIssued, loggedOut>>

Next_part_000 ==
    \/ handleLogout_part_000
    \/ handleLogin_part_000
    \/ \E i \in 1..Len(inflight) : \E ok \in BOOLEAN :
          handleLogin_Settled_part_000(i, ok)
    \/ \E i \in 1..Len(inflight) : \E outcome \in {"ok", "authReject", "error"} :
          loadUserProfile_Settled_part_000(i, outcome)
    \/ ViewHistory_part_000
    \/ \E i \in 1..Len(inflight) : \E ok \in BOOLEAN :
          loadHistory_Settled_part_000(i, ok)
    \/ \E filename \in StoredNotes_part_000 : togglePinNote_part_000(filename)
    \/ BackToMain_part_000

Spec_part_000 == Init_part_000 /\ [][Next_part_000]_vars

\* C35: a /profile request of part_000 that fails with anything but a
\* rejection of the session leaves state.token and state.pinnedNotes as
\* they were
C35_FailedProfileKeepsSession ==
    [][(/\ ev'.type = "response" /\ ev'.op = "profile"
        /\ ev'.cont = "part_000" /\ ev'.resp = "error")
          => (token' = token /\ pinnedNotes' = pinnedNotes)]_vars

====
